---- MODULE Spec2Model ----
(***************************************************************************)
(* Mirage: the relational store (db/schema.py, db/repo.py) and the worker  *)
(* orchestrator (worker/orchestrator.py) as a state machine.               *)
(*                                                                         *)
(* Every worker owns a session on the shared store.  A step of the model   *)
(* is one unit of work that ends in a commit (or in the rollback a failed  *)
(* commit performs); the position of a worker between two commits is pc.   *)
(***************************************************************************)
EXTENDS Integers, Sequences, FiniteSets, TLC

VARIABLES
    runs,            \* table runs: run_id -> row
    provider_calls,  \* table provider_calls: a set of rows
    metric_results,  \* table metric_results: a set of rows
    queue,           \* per worker: the RunEntity list get_queued_runs returned
    cur,             \* per worker: the RunEntity process_run is working on
    pc,              \* per worker: position inside process_run
    call,            \* per worker: provider_call_id of the row it created
    err,             \* per worker: type(e).__name__ of the exception being handled
    result,          \* outcome of the latest call made directly on the store
    rowid,           \* table runs: the run_ids in the order of their insertion
    tasks,           \* table human_tasks: a set of rows
    ratings,         \* table human_ratings: a set of rows
    gen              \* per client: position inside generate_pairwise_tasks

vars == <<runs, provider_calls, metric_results, queue, cur, pc, call, err, result,
          rowid, tasks, ratings, gen>>

(***************************************************************************)
(* Bounds and value sets                                                   *)
(***************************************************************************)
MaxRuns == 2
MaxEvalRuns == 3
MaxRatings == 2
MaxSummaryRuns == 2

RunIds == 1..MaxRuns
Workers == {"w1", "w2"}
Experiments == 1..MaxRuns
SpecHashes == {"abc123", "def456"}
MetricName == "MetricBundleV1"
MetricVersions == {"1", "2"}
MetricValues == {"{\"value\": 0.5}", "{\"value\": 0.9}"}
ItemId == "item-1"
VariantKey == "seed=42"
Provider == "mock"

\* Python's None in a nullable string column; a NULL timestamp is 0.
None == "None"

RunStatus == {"queued", "running", "succeeded", "failed"}
ProviderCallStatus == {"created", "completed", "failed"}
Terminal == {"succeeded", "failed"}

\* The keyword parameters repo.update_provider_call declares.
UpdateProviderCallParams == {"status", "provider_job_id", "cost_usd", "latency_ms"}
\* The attributes ProviderCallEntity declares.
ProviderCallEntityFields ==
    {"provider_call_id", "run_id", "provider", "provider_idempotency_key",
     "attempt", "status", "provider_job_id", "cost_usd", "latency_ms"}

(***************************************************************************)
(* core/identity.py                                                        *)
(***************************************************************************)
\* A sha256 digest is modelled by its pre-image, the string that is hashed.
\* json.dumps of a str | None member: null, or the string in quotes, its
\* quotes escaped.  The demo's params_json is the one string of the model
\* that holds a character json.dumps escapes.
json_str(x) ==
    LET escaped == IF x = "{\"quality\": \"demo\"}"
                   THEN "{\\\"quality\\\": \\\"demo\\\"}" ELSE x
    IN  IF x = None THEN "null" ELSE "\"" \o escaped \o "\""

\* sha256 of json.dumps(spec_obj, sort_keys=True, separators=(",", ":")).  The
\* seed, an int, is given by its decimal numeral, which is what json.dumps
\* writes for it.
compute_spec_hash(provider, model, model_version, rendered_prompt, params_json, seed, input_audio_sha256, ref_image_sha256) ==
    "{\"input_audio_sha256\":" \o json_str(input_audio_sha256)
        \o ",\"model\":" \o json_str(model)
        \o ",\"model_version\":" \o json_str(model_version)
        \o ",\"params_json\":" \o json_str(params_json)
        \o ",\"provider\":" \o json_str(provider)
        \o ",\"ref_image_sha256\":" \o json_str(ref_image_sha256)
        \o ",\"rendered_prompt\":" \o json_str(rendered_prompt)
        \o ",\"seed\":" \o seed \o "}"

\* sha256 of f"{experiment_id}|{item_id}|{variant_key}|{spec_hash}"
compute_run_id(experiment_id, item_id, variant_key, spec_hash) ==
    experiment_id \o "|" \o item_id \o "|" \o variant_key \o "|" \o spec_hash

\* sha256 of f"{provider}|{spec_hash}"
compute_provider_idempotency_key(provider, spec_hash) == provider \o "|" \o spec_hash

(***************************************************************************)
(* db/schema.py: rows and unique constraints                               *)
(***************************************************************************)
Run(run_id, experiment_id, item_id, variant_key, spec_hash) ==
    [run_id |-> run_id, experiment_id |-> experiment_id, item_id |-> item_id,
     variant_key |-> variant_key, spec_hash |-> spec_hash, status |-> "queued",
     output_canon_uri |-> None, output_sha256 |-> None,
     started_at |-> 0, ended_at |-> 0,
     error_code |-> None, error_detail |-> None]

ProviderCall(provider_call_id, run_id, provider, key, status) ==
    [provider_call_id |-> provider_call_id, run_id |-> run_id, provider |-> provider,
     provider_idempotency_key |-> key, attempt |-> 1, status |-> status]

\* The surrogate key metric_result_id, a fresh uuid4 that nothing reads, is left
\* out of the row.
MetricResult(run_id, metric_name, metric_version, value_json) ==
    [run_id |-> run_id, metric_name |-> metric_name,
     metric_version |-> metric_version, value_json |-> value_json,
     status |-> "computed"]

\* A constraint that takes spec_hash for part of a run's identity.
uq_run_identity_with_spec_hash(rs, row) ==
    \A r \in DOMAIN rs :
        <<rs[r].experiment_id, rs[r].item_id, rs[r].variant_key, rs[r].spec_hash>>
            # <<row.experiment_id, row.item_id, row.variant_key, row.spec_hash>>

\* UniqueConstraint("experiment_id", "item_id", "variant_key")
uq_run_identity(rs, row) ==
    \A r \in DOMAIN rs :
        <<rs[r].experiment_id, rs[r].item_id, rs[r].variant_key>>
            # <<row.experiment_id, row.item_id, row.variant_key>>

\* A schema whose provider_calls table lacks the unique constraint.
uq_provider_idempotency_dropped(calls, row) == TRUE

\* UniqueConstraint("provider", "provider_idempotency_key")
uq_provider_idempotency(calls, row) ==
    \A c \in calls :
        <<c.provider, c.provider_idempotency_key>>
            # <<row.provider, row.provider_idempotency_key>>

\* A constraint that leaves metric_version out.
uq_metric_identity_without_version(ms, row) ==
    \A m \in ms : <<m.run_id, m.metric_name>> # <<row.run_id, row.metric_name>>

\* UniqueConstraint("run_id", "metric_name", "metric_version")
uq_metric_identity(ms, row) ==
    \A m \in ms :
        <<m.run_id, m.metric_name, m.metric_version>>
            # <<row.run_id, row.metric_name, row.metric_version>>

(***************************************************************************)
(* db/repo.py                                                              *)
(***************************************************************************)
\* session.query(Run).filter(Run.status == "queued").all(), as RunEntity snapshots
get_queued_runs(rs) ==
    {[run_id |-> r, spec_hash |-> rs[r].spec_hash, status |-> rs[r].status] :
        r \in {x \in DOMAIN rs : rs[x].status = "queued"}}

\* "if x is not None: row.x = x"
IfNotNone(new, old) == IF new # None THEN new ELSE old

\* An update_run_status that writes nothing.
update_run_status_dropped(rs, run_id, status, output_canon_uri, output_sha256, error_code, error_detail) == rs

\* An update_run_status that writes the status and forgets the other fields.
update_run_status_only(rs, run_id, status, output_canon_uri, output_sha256, error_code, error_detail) ==
    IF run_id \in DOMAIN rs
    THEN [rs EXCEPT ![run_id] = [@ EXCEPT !.status = status]]
    ELSE rs

update_run_status(rs, run_id, status, output_canon_uri, output_sha256, error_code, error_detail) ==
    IF run_id \in DOMAIN rs
    THEN [rs EXCEPT ![run_id] =
            [@ EXCEPT !.status = status,
                      !.output_canon_uri = IfNotNone(output_canon_uri, @),
                      !.output_sha256 = IfNotNone(output_sha256, @),
                      !.error_code = IfNotNone(error_code, @),
                      !.error_detail = IfNotNone(error_detail, @)]]
    ELSE rs

set_run_started(rs, run_id, now) ==
    IF run_id \in DOMAIN rs
    THEN [rs EXCEPT ![run_id] = [@ EXCEPT !.status = "running", !.started_at = now]]
    ELSE rs

set_run_ended(rs, run_id, now) ==
    IF run_id \in DOMAIN rs
    THEN [rs EXCEPT ![run_id] = [@ EXCEPT !.ended_at = now]]
    ELSE rs

\* .filter(provider == ..., provider_idempotency_key == ...).first(): the empty
\* set stands for None, a singleton for the row found.
get_provider_call_by_idempotency_key(calls, provider, key) ==
    LET found == {c \in calls : c.provider = provider /\ c.provider_idempotency_key = key}
    IN  IF found = {} THEN {} ELSE {CHOOSE c \in found : TRUE}

\* Whether a call update_provider_call(session, id, **kwargs) binds its keywords;
\* a keyword the function does not declare raises TypeError.
update_provider_call_binds(kwargs) == kwargs \subseteq UpdateProviderCallParams

\* An update whose query lost its filter on provider_call_id.
update_provider_call_unfiltered(calls, provider_call_id, status) ==
    {IF status # None THEN [c EXCEPT !.status = status] ELSE c : c \in calls}

\* An update that leaves the row as it is.
update_provider_call_skipped(calls, provider_call_id, status) == calls

update_provider_call(calls, provider_call_id, status) ==
    {IF c.provider_call_id = provider_call_id /\ status # None
        THEN [c EXCEPT !.status = status] ELSE c : c \in calls}

\* session.add(ProviderCall(...)); session.commit(): the commit raises
\* IntegrityError, and rolls the insert back, when the constraint is violated.
create_provider_call(calls, row) ==
    IF uq_provider_idempotency(calls, row) THEN calls \cup {row} ELSE calls

\* session.add(MetricResult(...)); session.commit()
create_metric_result(ms, row) ==
    IF uq_metric_identity(ms, row) THEN ms \cup {row} ELSE ms

(***************************************************************************)
(* Initial state: init_db() has created the empty tables; no worker runs.  *)
(***************************************************************************)
NoRun ==
    [run_id |-> 0, spec_hash |-> None, status |-> None, input_audio_sha256 |-> None,
     ref_image_path |-> None, ref_image_sha256 |-> None]

\* The RunEntity a worker holds with the part of its RunContext that depends
\* on the files found: gen_input.input_audio_sha256, gen_input.ref_image_path
\* and gen_input.ref_image_sha256.
RunContext(run, input_audio_sha256, ref_image_path, ref_image_sha256) ==
    [run_id |-> run.run_id, spec_hash |-> run.spec_hash, status |-> run.status,
     input_audio_sha256 |-> input_audio_sha256,
     ref_image_path |-> ref_image_path, ref_image_sha256 |-> ref_image_sha256]

\* sha256_file of the item's audio file as seed_database found it; None
\* stands for a file that does not exist.
SeedAudioSha == "sha256-audio"
SeedAudio == {None, SeedAudioSha}

\* sha256_file of the reference image.
RefImageSha == "sha256-ref"

\* str(e) for the exceptions the pipeline raises, by type(e).__name__.
str(e) ==
    CASE e = "FileNotFoundError" -> "Audio file not found"
      [] e = "AttributeError" -> "object has no attribute 'raw_artifact_uri'"
      [] e = "IntegrityError" -> "UNIQUE constraint failed"
      [] e = "TypeError" -> "unexpected keyword argument 'raw_artifact_uri'"
      [] e = "RuntimeError" -> "Failed to generate synthetic video"
      [] OTHER -> ""

\* datetime.now(timezone.utc) at a write to run_id's row: a time later than the
\* timestamps that row holds (timestamps of different rows are never compared).
now(rs, run_id) ==
    IF run_id \in DOMAIN rs
    THEN 1 + (IF rs[run_id].started_at >= rs[run_id].ended_at
              THEN rs[run_id].started_at ELSE rs[run_id].ended_at)
    ELSE 1
NoResult == [op |-> None, outcome |-> None, args |-> <<0, None, None, None>>]

\* uuid.uuid4(): a value no row carries yet (rows are never deleted).
uuid4(rows) == Cardinality(rows) + 1

\* API clients that call generate_pairwise_tasks, and a client outside a call.
Clients == {"c1", "c2"}
NoCall == [pc |-> "idle", experiment_id |-> 0, run_ids |-> <<>>, existing_pairs |-> {}]

\* The state every specification shares: no worker is running.
Idle ==
    /\ metric_results = {}
    /\ queue = [w \in Workers |-> {}]
    /\ cur = [w \in Workers |-> NoRun]
    /\ pc = [w \in Workers |-> "idle"]
    /\ call = [w \in Workers |-> 0]
    /\ err = [w \in Workers |-> None]
    /\ result = NoResult
    /\ gen = [c \in Clients |-> NoCall]

\* scripts/seed_demo.py seed_database, lines 196-234: one queued run per
\* experiment slot, each with the spec_hash of its inputs; then main() starts
\* process_runs.  The two hashes are interchangeable: the first run has the
\* first one.
Init ==
    /\ \E h \in {f \in [RunIds -> SpecHashes] : f[1] = "abc123"} :
          runs = [r \in RunIds |-> Run(r, r, ItemId, VariantKey, h[r])]
    /\ rowid = [i \in RunIds |-> i]
    /\ provider_calls = {}
    /\ tasks = {}
    /\ ratings = {}
    /\ Idle

\* db/session.py init_db: the tables exist and are empty.
InitStore ==
    /\ runs = <<>>
    /\ rowid = <<>>
    /\ provider_calls = {}
    /\ tasks = {}
    /\ ratings = {}
    /\ Idle

(***************************************************************************)
(* Direct writers of the store                                             *)
(***************************************************************************)
\* scripts/seed_demo.py: session.add(Run(..., status="queued")); session.commit()
add_run(run_id, experiment_id, spec_hash) ==
    LET row == Run(run_id, experiment_id, ItemId, VariantKey, spec_hash)
        ok == run_id \notin DOMAIN runs /\ uq_run_identity(runs, row)
    IN  /\ runs' = IF ok THEN runs @@ (run_id :> row) ELSE runs
        /\ rowid' = IF ok THEN Append(rowid, run_id) ELSE rowid
        /\ result' = [op |-> "add_run",
                      outcome |-> IF ok THEN "ok" ELSE "IntegrityError",
                      args |-> <<run_id, experiment_id, spec_hash, None>>]
        /\ UNCHANGED <<provider_calls, metric_results, queue, cur, pc, call, err,
                       tasks, ratings, gen>>

\* A ProviderCall row written outside the workers modelled here (an earlier
\* process, the schema tests): repo.create_provider_call and commit.  The row
\* belongs to the first run that has the spec_hash.
add_provider_call(run_id, status) ==
    /\ \A r \in DOMAIN runs : runs[r].spec_hash = runs[run_id].spec_hash => run_id <= r
    /\ LET key == compute_provider_idempotency_key(Provider, runs[run_id].spec_hash)
           row == ProviderCall(uuid4(provider_calls), run_id, Provider, key, status)
       IN  /\ uq_provider_idempotency(provider_calls, row)
           /\ provider_calls' = create_provider_call(provider_calls, row)
    /\ UNCHANGED <<runs, metric_results, queue, cur, pc, call, err, result,
                   rowid, tasks, ratings, gen>>

\* session.add(MetricResult(...)); session.commit() for a run of the store, as
\* RunProcessor._compute_metrics and the schema tests do it.
add_metric_result(run_id, metric_version, value_json) ==
    LET row == MetricResult(run_id, MetricName, metric_version, value_json)
    IN  /\ run_id \in DOMAIN runs
        /\ metric_results' = create_metric_result(metric_results, row)
        /\ result' = [op |-> "add_metric_result",
                      outcome |-> IF uq_metric_identity(metric_results, row)
                                  THEN "ok" ELSE "IntegrityError",
                      args |-> <<run_id, 0, metric_version, value_json>>]
        /\ UNCHANGED <<runs, provider_calls, queue, cur, pc, call, err,
                       rowid, tasks, ratings, gen>>

\* Clients that insert runs into a fresh store.
NextRuns ==
    \E r \in RunIds, e \in Experiments, h \in SpecHashes : add_run(r, e, h)

SpecRuns == InitStore /\ [][NextRuns]_vars

\* Clients that write metric results for the seeded runs.
NextMetrics ==
    \E r \in RunIds, v \in MetricVersions, j \in MetricValues :
        add_metric_result(r, v, j)

SpecMetrics == Init /\ [][NextMetrics]_vars

(***************************************************************************)
(* worker/orchestrator.py                                                  *)
(***************************************************************************)
\* WorkerOrchestrator.get_queued_runs, as scripts/seed_demo.py process_runs calls
\* it: the worker keeps the list and processes its entries one by one.
fetch_queued_runs(w) ==
    /\ pc[w] = "idle"
    /\ queue[w] = {}
    /\ get_queued_runs(runs) # {}
    /\ queue' = [queue EXCEPT ![w] = get_queued_runs(runs)]
    /\ UNCHANGED <<runs, provider_calls, metric_results, cur, pc, call, err, result,
                   rowid, tasks, ratings, gen>>

\* process_run, lines 257-264: _build_context, then set_run_started and commit
\* when the entity handed in says "queued".  _build_context raises
\* FileNotFoundError when the item's audio file does not exist
\* (input_audio_sha256 is None) and hashes the file it finds otherwise; it
\* hashes the item's reference image when the item names one and the file
\* exists, and leaves ref_image_sha256 None otherwise (lines 328-332).  The
\* caller's "for run in queued_runs" hands the entries over in the order of
\* the list, which is the order of the rows in the table.
process_run(w, run, input_audio_sha256, ref_image_uri, ref_exists) ==
    /\ pc[w] = "idle"
    /\ run \in queue[w]
    /\ \A other \in queue[w] : run.run_id <= other.run_id
    /\ queue' = [queue EXCEPT ![w] = @ \ {run}]
    /\ cur' = [cur EXCEPT ![w] =
                  IF input_audio_sha256 # None
                  THEN RunContext(run, input_audio_sha256, ref_image_uri,
                                  IF ref_image_uri # None /\ ref_exists
                                  THEN RefImageSha ELSE None)
                  ELSE RunContext(run, None, None, None)]
    /\ IF input_audio_sha256 # None
       THEN /\ IF run.status = "queued"
               THEN runs' = set_run_started(runs, run.run_id, now(runs, run.run_id))
               ELSE runs' = runs
            /\ pc' = [pc EXCEPT ![w] = "call_provider"]
            /\ err' = err
       ELSE /\ pc' = [pc EXCEPT ![w] = "except"]
            /\ err' = [err EXCEPT ![w] = "FileNotFoundError"]
            /\ runs' = runs
    /\ UNCHANGED <<provider_calls, metric_results, call, result,
                   rowid, tasks, ratings, gen>>

\* RunProcessor._call_provider, lines 89-112: the lookup and the reuse branch.
\* Reading existing_call.raw_artifact_uri raises AttributeError unless the
\* entity declares that attribute.
call_provider(w) ==
    /\ pc[w] = "call_provider"
    /\ LET key == compute_provider_idempotency_key(Provider, cur[w].spec_hash)
           existing_call == get_provider_call_by_idempotency_key(provider_calls, Provider, key)
       IN  IF existing_call # {} /\ (\E c \in existing_call : c.status = "completed")
           THEN IF "raw_artifact_uri" \in ProviderCallEntityFields
                THEN /\ pc' = [pc EXCEPT ![w] = "normalize"]
                     /\ err' = err
                ELSE /\ pc' = [pc EXCEPT ![w] = "except"]
                     /\ err' = [err EXCEPT ![w] = "AttributeError"]
           ELSE /\ pc' = [pc EXCEPT ![w] = "create_provider_call"]
                /\ err' = err
    /\ UNCHANGED <<runs, provider_calls, metric_results, queue, cur, call, result,
                   rowid, tasks, ratings, gen>>

\* RunProcessor._call_provider, lines 114-125: insert the "created" row, commit.
call_provider_create(w) ==
    /\ pc[w] = "create_provider_call"
    /\ LET key == compute_provider_idempotency_key(Provider, cur[w].spec_hash)
           id == uuid4(provider_calls)
           row == ProviderCall(id, cur[w].run_id, Provider, key, "created")
       IN  /\ provider_calls' = create_provider_call(provider_calls, row)
           /\ IF uq_provider_idempotency(provider_calls, row)
              THEN /\ pc' = [pc EXCEPT ![w] = "generate"]
                   /\ call' = [call EXCEPT ![w] = id]
                   /\ err' = err
              ELSE /\ pc' = [pc EXCEPT ![w] = "except"]
                   /\ err' = [err EXCEPT ![w] = "IntegrityError"]
                   /\ call' = call
    /\ UNCHANGED <<runs, metric_results, queue, cur, result,
                   rowid, tasks, ratings, gen>>

\* The keywords of the completing update_provider_call call, lines 141-150.
CompletionKwargs ==
    {"status", "provider_job_id", "cost_usd", "latency_ms",
     "raw_artifact_uri", "raw_artifact_sha256"}

\* RunProcessor._call_provider, lines 134-158: generate_variant returns or
\* raises; then the completing update, or the handler that marks the call
\* failed, commits and re-raises.
call_provider_generate(w, generated) ==
    /\ pc[w] = "generate"
    /\ IF generated /\ update_provider_call_binds(CompletionKwargs)
       THEN /\ provider_calls' = update_provider_call(provider_calls, call[w], "completed")
            /\ pc' = [pc EXCEPT ![w] = "normalize"]
            /\ err' = err
       ELSE /\ provider_calls' = update_provider_call(provider_calls, call[w], "failed")
            /\ pc' = [pc EXCEPT ![w] = "except"]
            /\ err' = [err EXCEPT ![w] = IF generated THEN "TypeError" ELSE "RuntimeError"]
    /\ call' = [call EXCEPT ![w] = 0]
    /\ UNCHANGED <<runs, metric_results, queue, cur, result,
                   rowid, tasks, ratings, gen>>

\* process_run, lines 281-291: the handler of every exception.
process_run_except(w) ==
    /\ pc[w] = "except"
    /\ runs' = set_run_ended(
                   update_run_status(runs, cur[w].run_id, "failed", None, None,
                                     err[w], str(err[w])),
                   cur[w].run_id, now(runs, cur[w].run_id))
    /\ pc' = [pc EXCEPT ![w] = "idle"]
    /\ cur' = [cur EXCEPT ![w] = NoRun]
    /\ err' = [err EXCEPT ![w] = None]
    /\ UNCHANGED <<provider_calls, metric_results, queue, call, result,
                   rowid, tasks, ratings, gen>>

Next ==
    \/ \E r \in DOMAIN runs, s \in ProviderCallStatus : add_provider_call(r, s)
    \/ \E w \in Workers : fetch_queued_runs(w)
    \/ \E w \in Workers, a \in SeedAudio : \E run \in queue[w] :
           process_run(w, run, a, None, FALSE)
    \/ \E w \in Workers : call_provider(w)
    \/ \E w \in Workers : call_provider_create(w)
    \/ \E w \in Workers, b \in BOOLEAN : call_provider_generate(w, b)
    \/ \E w \in Workers : process_run_except(w)

Spec == Init /\ [][Next]_vars

\* The loop of process_runs and the straight-line code of process_run: a
\* worker that can take its next step takes it (no worker crashes, no call
\* blocks for ever).
Fairness ==
    \A w \in Workers :
        /\ WF_vars(fetch_queued_runs(w))
        /\ WF_vars(\E a \in SeedAudio : \E run \in queue[w] : process_run(w, run, a, None, FALSE))
        /\ WF_vars(call_provider(w))
        /\ WF_vars(call_provider_create(w))
        /\ WF_vars(\E b \in BOOLEAN : call_provider_generate(w, b))
        /\ WF_vars(process_run_except(w))

\* The seeded store with the completed calls an earlier pass may have left:
\* any of the keys of the runs has its completed ProviderCall, made for the
\* first run that has the spec_hash.
InitLive ==
    /\ \E h \in {f \in [RunIds -> SpecHashes] : f[1] = "abc123"} :
          \E K \in SUBSET {h[r] : r \in RunIds} :
              /\ runs = [r \in RunIds |-> Run(r, r, ItemId, VariantKey, h[r])]
              /\ provider_calls =
                     {ProviderCall(IF k = "abc123" \/ "abc123" \notin K THEN 1 ELSE 2,
                                   CHOOSE r \in RunIds :
                                       h[r] = k /\ \A o \in RunIds : h[o] = k => r <= o,
                                   Provider, compute_provider_idempotency_key(Provider, k),
                                   "completed") : k \in K}
    /\ rowid = [i \in RunIds |-> i]
    /\ tasks = {}
    /\ ratings = {}
    /\ Idle

\* The steps of the workers.
NextLive ==
    \/ \E w \in Workers : fetch_queued_runs(w)
    \/ \E w \in Workers, a \in SeedAudio : \E run \in queue[w] :
           process_run(w, run, a, None, FALSE)
    \/ \E w \in Workers : call_provider(w)
    \/ \E w \in Workers : call_provider_create(w)
    \/ \E w \in Workers, b \in BOOLEAN : call_provider_generate(w, b)
    \/ \E w \in Workers : process_run_except(w)

SpecLive == InitLive /\ [][NextLive]_vars /\ Fairness

\* The reference images a dataset item may name, and the workers on a dataset
\* whose item may name one: the file is on disk or not when a run is
\* processed.
RefImageUris == {None, "ref.png"}

NextContext ==
    \/ \E r \in DOMAIN runs, s \in ProviderCallStatus : add_provider_call(r, s)
    \/ \E w \in Workers : fetch_queued_runs(w)
    \/ \E w \in Workers, a \in SeedAudio, u \in RefImageUris, e \in BOOLEAN :
           \E run \in queue[w] : process_run(w, run, a, u, e)
    \/ \E w \in Workers : call_provider(w)
    \/ \E w \in Workers : call_provider_create(w)
    \/ \E w \in Workers, b \in BOOLEAN : call_provider_generate(w, b)
    \/ \E w \in Workers : process_run_except(w)

SpecContext == Init /\ [][NextContext]_vars

\* The audio file a worker finds: absent, as seed_database hashed it, or
\* rewritten since.
AudioAtProcessing == {None, SeedAudioSha, "sha256-audio-rewritten"}

\* compute_spec_hash on the demo's generation spec and seed 42 with the given
\* file hashes: the call of seed_database (lines 204-213), and the same call
\* on the members of the gen_input that _build_context assembles.
spec_hash_of(input_audio_sha256, ref_image_sha256) ==
    compute_spec_hash(Provider, "mock-v1", "1.0", "Generate a talking head video.",
                      "{\"quality\": \"demo\"}", "42", input_audio_sha256, ref_image_sha256)

\* seed_database with the spec_hash it computes: the runs share the item and
\* the seed, so they share the spec_hash.
InitDrift ==
    /\ runs = [r \in RunIds |->
                 Run(r, r, ItemId, VariantKey, spec_hash_of(SeedAudioSha, None))]
    /\ rowid = [i \in RunIds |-> i]
    /\ provider_calls = {}
    /\ tasks = {}
    /\ ratings = {}
    /\ Idle

\* The workers on a dataset whose audio file may have changed since the runs
\* were enqueued.
NextDrift ==
    \/ \E w \in Workers : fetch_queued_runs(w)
    \/ \E w \in Workers, a \in AudioAtProcessing : \E run \in queue[w] :
           process_run(w, run, a, None, FALSE)
    \/ \E w \in Workers : call_provider(w)
    \/ \E w \in Workers : call_provider_create(w)
    \/ \E w \in Workers, b \in BOOLEAN : call_provider_generate(w, b)
    \/ \E w \in Workers : process_run_except(w)

SpecDrift == InitDrift /\ [][NextDrift]_vars

\* The sha256 of the canonical video made from the inputs that hash to
\* spec_hash.
CanonSha(spec_hash) == IF spec_hash = "abc123" THEN "sha256-canon-abc123" ELSE "sha256-canon-def456"

\* The store as a successful pass over the seeded runs leaves it: every run
\* succeeded with its canonical output, one completed ProviderCall per
\* idempotency key (made for the first run that has the spec_hash) and one
\* MetricResult per run.
InitRerun ==
    /\ \E h \in {f \in [RunIds -> SpecHashes] : f[1] = "abc123"} :
          /\ runs = [r \in RunIds |->
                       [Run(r, r, ItemId, VariantKey, h[r]) EXCEPT
                           !.status = "succeeded",
                           !.output_canon_uri = "output_canon.mp4",
                           !.output_sha256 = CanonSha(h[r]),
                           !.started_at = 1, !.ended_at = 2]]
          /\ provider_calls =
                 {ProviderCall(r, r, Provider,
                               compute_provider_idempotency_key(Provider, h[r]), "completed") :
                  r \in {q \in RunIds : \A o \in RunIds : h[o] = h[q] => q <= o}}
    /\ rowid = [i \in RunIds |-> i]
    /\ metric_results = {MetricResult(r, MetricName, "1", "{\"value\": 0.5}") : r \in RunIds}
    /\ tasks = {}
    /\ ratings = {}
    /\ queue = [w \in Workers |-> {}]
    /\ cur = [w \in Workers |-> NoRun]
    /\ pc = [w \in Workers |-> "idle"]
    /\ call = [w \in Workers |-> 0]
    /\ err = [w \in Workers |-> None]
    /\ result = NoResult
    /\ gen = [c \in Clients |-> NoCall]

\* The re-enqueue of a succeeded run: repo.update_run_status(session, run_id,
\* "queued") and commit.
reenqueue(run_id) ==
    /\ runs[run_id].status = "succeeded"
    /\ runs' = update_run_status(runs, run_id, "queued", None, None, None, None)
    /\ UNCHANGED <<provider_calls, metric_results, queue, cur, pc, call, err, result,
                   rowid, tasks, ratings, gen>>

\* Re-enqueued runs processed again with their inputs unchanged (the audio
\* file is there, the item names no reference image).  Every key has its
\* completed call, so the steps that insert a call and invoke generate are not
\* reached.
NextRerun ==
    \/ \E r \in DOMAIN runs : reenqueue(r)
    \/ \E w \in Workers : fetch_queued_runs(w)
    \/ \E w \in Workers : \E run \in queue[w] : process_run(w, run, SeedAudioSha, None, FALSE)
    \/ \E w \in Workers : call_provider(w)
    \/ \E w \in Workers : process_run_except(w)

SpecRerun == InitRerun /\ [][NextRerun]_vars

(***************************************************************************)
(* Human evaluation: eval/tasks.py and its part of db/repo.py              *)
(***************************************************************************)
\* The runs of the experiment under evaluation.  A run_id is a string in the
\* code; the integers stand for run_ids in their lexicographic order.
EvalRunIds == 1..MaxEvalRuns
EvalExperiment == 1
EvalVariant(run_id) == <<"seed", run_id>>

\* _create_pairwise_task with a flip that shows the pair unswapped.
create_pairwise_task_unswapped(task_id, experiment_id, left_run_id, right_run_id, flip) ==
    [task_id |-> task_id, experiment_id |-> experiment_id, task_type |-> "pairwise",
     left_run_id |-> left_run_id, right_run_id |-> right_run_id,
     presented_left_run_id |-> left_run_id, presented_right_run_id |-> right_run_id,
     flip |-> flip, status |-> "open"]

\* _create_pairwise_task; flip is the outcome of secrets.randbelow(2) == 1.
create_pairwise_task(task_id, experiment_id, left_run_id, right_run_id, flip) ==
    [task_id |-> task_id, experiment_id |-> experiment_id, task_type |-> "pairwise",
     left_run_id |-> left_run_id, right_run_id |-> right_run_id,
     presented_left_run_id |-> IF flip THEN right_run_id ELSE left_run_id,
     presented_right_run_id |-> IF flip THEN left_run_id ELSE right_run_id,
     flip |-> flip, status |-> "open"]

\* .filter(experiment_id == ..., status == "succeeded").all(): the run_ids in
\* the order of the table.
get_run_ids_for_experiment(rs, order, experiment_id) ==
    SelectSeq(order, LAMBDA r : rs[r].experiment_id = experiment_id)

get_succeeded_run_ids_for_experiment(rs, order, experiment_id) ==
    SelectSeq(order, LAMBDA r : /\ rs[r].experiment_id = experiment_id
                                /\ rs[r].status = "succeeded")

\* tuple(sorted([a, b]))
sorted(a, b) == IF a <= b THEN <<a, b>> ELSE <<b, a>>

\* A get_existing_task_pairs that finds no task of the experiment.
get_existing_task_pairs_empty(ts, experiment_id) == {}

get_existing_task_pairs(ts, experiment_id) ==
    {sorted(t.left_run_id, t.right_run_id) : t \in {x \in ts : x.experiment_id = experiment_id}}

\* list(itertools.combinations(run_ids, 2))
RECURSIVE combinations(_)
combinations(run_ids) ==
    IF Len(run_ids) < 2 THEN <<>>
    ELSE [k \in 1..(Len(run_ids) - 1) |-> <<Head(run_ids), run_ids[k + 1]>>]
             \o combinations(Tail(run_ids))

\* The loop of generate_pairwise_tasks, lines 58-71, from the k-th combination
\* on: the table after the create_task calls.
RECURSIVE create_tasks(_, _, _, _, _, _)
create_tasks(ts, experiment_id, combos, existing_pairs, flips, k) ==
    IF k > Len(combos) THEN ts
    ELSE IF sorted(combos[k][1], combos[k][2]) \in existing_pairs
         THEN create_tasks(ts, experiment_id, combos, existing_pairs, flips, k + 1)
         ELSE create_tasks(
                  ts \cup {create_pairwise_task(uuid4(ts), experiment_id,
                                                combos[k][1], combos[k][2], flips[k])},
                  experiment_id, combos, existing_pairs, flips, k + 1)

\* A test fixture's session.add(Run(..., status=...)); session.commit() for a
\* run that has finished.
\* [t.task_id for t in created_tasks], line 78: the ids of the tasks a call
\* added, in the order it created them (uuid4 numbers the rows as they come).
created_task_ids(before, after) ==
    [k \in 1..(Cardinality(after) - Cardinality(before)) |-> Cardinality(before) + k]

add_finished_run(run_id, status) ==
    LET row == [Run(run_id, EvalExperiment, ItemId, EvalVariant(run_id), "abc123")
                   EXCEPT !.status = status]
        ok == run_id \notin DOMAIN runs /\ uq_run_identity(runs, row)
    IN  /\ runs' = IF ok THEN runs @@ (run_id :> row) ELSE runs
        /\ rowid' = IF ok THEN Append(rowid, run_id) ELSE rowid
        /\ result' = [op |-> "add_run",
                      outcome |-> IF ok THEN "ok" ELSE "IntegrityError",
                      args |-> <<run_id, EvalExperiment, status, None>>]
        /\ UNCHANGED <<provider_calls, metric_results, queue, cur, pc, call, err,
                       tasks, ratings, gen>>

\* generate_pairwise_tasks, lines 47-53: the two queries.  With fewer than two
\* runs the call returns at once.
generate_read(c, experiment_id) ==
    LET run_ids == get_succeeded_run_ids_for_experiment(runs, rowid, experiment_id)
    IN  /\ gen[c].pc = "idle"
        /\ IF Len(run_ids) < 2
           THEN /\ gen' = gen
                /\ result' = [op |-> "generate_pairwise_tasks", outcome |-> 0,
                              args |-> <<c, experiment_id, run_ids, <<>> >>]
           ELSE /\ gen' = [gen EXCEPT ![c] =
                              [pc |-> "create", experiment_id |-> experiment_id,
                               run_ids |-> run_ids,
                               existing_pairs |-> get_existing_task_pairs(tasks, experiment_id)]]
                /\ result' = result
        /\ UNCHANGED <<runs, provider_calls, metric_results, queue, cur, pc, call, err,
                       rowid, tasks, ratings>>

\* generate_pairwise_tasks, lines 56-79: the loop, the commit and the result.
generate_create(c, flips) ==
    /\ gen[c].pc = "create"
    /\ tasks' = create_tasks(tasks, gen[c].experiment_id, combinations(gen[c].run_ids),
                             gen[c].existing_pairs, flips, 1)
    /\ result' = [op |-> "generate_pairwise_tasks",
                  outcome |-> Cardinality(tasks') - Cardinality(tasks),
                  args |-> <<c, gen[c].experiment_id, gen[c].run_ids,
                             created_task_ids(tasks, tasks')>>]
    /\ gen' = [gen EXCEPT ![c] = NoCall]
    /\ UNCHANGED <<runs, provider_calls, metric_results, queue, cur, pc, call, err,
                   rowid, ratings>>

\* generate_pairwise_tasks, lines 47-79, as one call that no other call
\* overlaps.
generate_pairwise_tasks(c, experiment_id, flips) ==
    LET run_ids == get_succeeded_run_ids_for_experiment(runs, rowid, experiment_id)
        existing_pairs == get_existing_task_pairs(tasks, experiment_id)
    IN  /\ gen[c].pc = "idle"
        /\ tasks' = IF Len(run_ids) < 2 THEN tasks
                     ELSE create_tasks(tasks, experiment_id, combinations(run_ids),
                                       existing_pairs, flips, 1)
        /\ result' = [op |-> "generate_pairwise_tasks",
                      outcome |-> Cardinality(tasks') - Cardinality(tasks),
                      args |-> <<c, experiment_id, run_ids, created_task_ids(tasks, tasks')>>]
        /\ UNCHANGED <<runs, provider_calls, metric_results, queue, cur, pc, call, err,
                       rowid, ratings, gen>>

\* The outcomes of secrets.randbelow(2) == 1 for the combinations of n runs.
Flips(n) == [1..((n * (n - 1)) \div 2) -> BOOLEAN]

\* The number of succeeded runs a call for the experiment reads.
Succeeded(experiment_id) ==
    Len(get_succeeded_run_ids_for_experiment(runs, rowid, experiment_id))

\* Clients of the tasks endpoint, each request on a session of its own.
NextPairs ==
    \/ \E r \in EvalRunIds, s \in Terminal : add_finished_run(r, s)
    \/ \E c \in Clients : generate_read(c, EvalExperiment)
    \/ \E c \in Clients : \E f \in Flips(Len(gen[c].run_ids)) : generate_create(c, f)

SpecPairs == InitStore /\ [][NextPairs]_vars

\* One client of the tasks endpoint, one request after the other.
NextTasks ==
    \/ \E r \in EvalRunIds, s \in Terminal : add_finished_run(r, s)
    \/ \E f \in Flips(Succeeded(EvalExperiment)) :
           generate_pairwise_tasks("c1", EvalExperiment, f)

SpecTasks == InitStore /\ [][NextTasks]_vars

(***************************************************************************)
(* Human evaluation: eval/ratings.py and its part of db/repo.py            *)
(***************************************************************************)
Choice == {"left", "right", "tie", "skip"}

HumanRating(rating_id, task_id, rater_id, choice_realism, choice_lipsync, choice_targetmatch, notes) ==
    [rating_id |-> rating_id, task_id |-> task_id, rater_id |-> rater_id,
     choice_realism |-> choice_realism, choice_lipsync |-> choice_lipsync,
     choice_targetmatch |-> choice_targetmatch, notes |-> notes]

\* .filter(task_id == ...).first(): the empty set stands for None.
get_task(ts, task_id) ==
    LET found == {t \in ts : t.task_id = task_id}
    IN  IF found = {} THEN {} ELSE {CHOOSE t \in found : TRUE}

\* An update_task_status whose query lost its filter.
update_task_status_unfiltered(ts, task_id, status) ==
    {[t EXCEPT !.status = status] : t \in ts}

update_task_status(ts, task_id, status) ==
    {IF t.task_id = task_id THEN [t EXCEPT !.status = status] ELSE t : t \in ts}

\* session.add(HumanRating(...)): the primary key rating_id is fresh.
create_rating(rs, row) == rs \cup {row}

\* The state after a fixture has stored the experiment's runs, all succeeded,
\* and one generate_pairwise_tasks call has completed.
InitRated ==
    /\ runs = [r \in EvalRunIds |->
                 [Run(r, EvalExperiment, ItemId, EvalVariant(r), "abc123")
                     EXCEPT !.status = "succeeded"]]
    /\ rowid = [i \in EvalRunIds |-> i]
    /\ provider_calls = {}
    /\ tasks = create_tasks({}, EvalExperiment, combinations(rowid), {},
                            [k \in DOMAIN combinations(rowid) |-> k % 2 = 0], 1)
    /\ ratings = {}
    /\ Idle

\* The task_ids a client may name: those of the store and one of no task.
TaskIds == {t.task_id : t \in tasks} \cup {0}

\* The raters of the experiment.
Raters == {"rater-001", "rater-002"}

\* The rating forms submitted: the choices for realism, lipsync and
\* targetmatch.
RatingForms == {<<"left", "right", None>>, <<"tie", "skip", "left">>}

\* submit_rating(session, RatingInput(...)), lines 60-77.  The store takes at
\* most MaxRatings ratings.
submit_rating(task_id, rater_id, choice_realism, choice_lipsync, choice_targetmatch) ==
    LET task == get_task(tasks, task_id)
        rating == HumanRating(uuid4(ratings), task_id, rater_id, choice_realism,
                              choice_lipsync, choice_targetmatch, None)
    IN  /\ Cardinality(ratings) < MaxRatings
        /\ IF task = {}
           THEN /\ ratings' = ratings
                /\ tasks' = tasks
           ELSE /\ ratings' = create_rating(ratings, rating)
                /\ tasks' = update_task_status(tasks, task_id, "done")
        /\ result' = [op |-> "submit_rating",
                      outcome |-> IF task = {} THEN "ValueError" ELSE "ok",
                      args |-> <<task_id, rater_id,
                                 <<choice_realism, choice_lipsync>>, choice_targetmatch>>]
        /\ UNCHANGED <<runs, provider_calls, metric_results, queue, cur, pc, call, err,
                       rowid, gen>>

\* Raters working through the tasks of the experiment.
NextRatings ==
    \E t \in TaskIds, rater \in Raters, f \in RatingForms :
        submit_rating(t, rater, f[1], f[2], f[3])

SpecRatings == InitRated /\ [][NextRatings]_vars

(***************************************************************************)
(* Human summary: aggregation/summary.py                                   *)
(***************************************************************************)
\* The elements of a list.
Range(f) == {f[x] : x \in DOMAIN f}

\* The runs of the summarized experiment are 1..MaxSummaryRuns.
SummaryRunIds == 1..MaxSummaryRuns

\* Choice in the order a form lists it, and the values choice_targetmatch
\* takes (it is optional).
ChoiceSeq == <<"left", "right", "tie", "skip">>
TargetChoices == <<None, "left">>

\* A submitted form: indices of choice_realism, choice_lipsync and
\* choice_targetmatch.
Forms == (1..4) \X (1..4) \X (1..2)

\* Ratings carry random ids, so one order of submission stands for all:
\* forms are numbered and stored in non-decreasing number.
FormCode(e) == ((e[1] * 4 + e[2][1]) * 4 + e[2][2]) * 2 + e[2][3]

\* recommended_pick = None: the run_id of no run.
NoPick == 0

HumanSummary(win_rates, recommended_pick, total_comparisons) ==
    [win_rates |-> win_rates, recommended_pick |-> recommended_pick,
     total_comparisons |-> total_comparisons]

\* The tasks of the experiment in every status.
get_tasks_for_experiment(ts, experiment_id) ==
    {t \in ts : t.experiment_id = experiment_id}

get_done_tasks_for_experiment(ts, experiment_id) ==
    {t \in ts : t.experiment_id = experiment_id /\ t.status = "done"}

get_ratings_for_tasks(rs, task_ids) == {r \in rs : r.task_id \in task_ids}

\* The choices of a rating counted with targetmatch among them.
counted_choices_with_targetmatch(rating) ==
    <<rating.choice_realism, rating.choice_lipsync, rating.choice_targetmatch>>

\* The choices of a rating that _compute_win_rates counts, line 107.
counted_choices(rating) == <<rating.choice_realism, rating.choice_lipsync>>

\* The credit of lines 108-126 with the flip left out of account.
credit_unflipped(task, choice, run_id) ==
    IF choice = "left" THEN (IF run_id = task.left_run_id THEN 2 ELSE 0)
    ELSE IF choice = "right" THEN (IF run_id = task.right_run_id THEN 2 ELSE 0)
    ELSE IF choice = "tie"
         THEN (IF run_id = task.left_run_id THEN 1 ELSE 0)
              + (IF run_id = task.right_run_id THEN 1 ELSE 0)
    ELSE 0

\* What one choice adds to wins[run_id], lines 108-126, in quarters of a win
\* (0.5 is 2, 0.25 is 1).
credit(task, choice, run_id) ==
    IF choice = "left"
    THEN IF task.flip
         THEN (IF run_id = task.right_run_id THEN 2 ELSE 0)
         ELSE (IF run_id = task.left_run_id THEN 2 ELSE 0)
    ELSE IF choice = "right"
    THEN IF task.flip
         THEN (IF run_id = task.left_run_id THEN 2 ELSE 0)
         ELSE (IF run_id = task.right_run_id THEN 2 ELSE 0)
    ELSE IF choice = "tie"
    THEN (IF run_id = task.left_run_id THEN 1 ELSE 0)
         + (IF run_id = task.right_run_id THEN 1 ELSE 0)
    ELSE 0

\* The loops of lines 94-126 for one run: wins[run_id] in quarters.
RECURSIVE wins(_, _, _)
wins(ts, rs, run_id) ==
    IF rs = {} THEN 0
    ELSE LET rating == CHOOSE r \in rs : TRUE
             task == CHOOSE t \in ts : t.task_id = rating.task_id
             choices == counted_choices(rating)
             RECURSIVE of_choices(_)
             of_choices(k) == IF k > Len(choices) THEN 0
                              ELSE credit(task, choices[k], run_id) + of_choices(k + 1)
         IN  of_choices(1) + wins(ts, rs \ {rating}, run_id)

\* A denominator of one possible win per rating.
total_possible_per_rating(total_comparisons) ==
    IF total_comparisons > 0 THEN total_comparisons ELSE 1

\* Line 130.
total_possible(total_comparisons) ==
    IF total_comparisons > 0 THEN 2 * total_comparisons ELSE 1

\* max(win_rates, key=...) of line 136: the first key, in the order of the
\* dict (that of run_ids), whose rate no other key exceeds.  Rates share a
\* denominator, so they compare as their numerators.
max(run_ids, win_rates) ==
    LET i == CHOOSE k \in 1..Len(run_ids) :
                 /\ \A j \in 1..Len(run_ids) :
                        win_rates[run_ids[j]][1] <= win_rates[run_ids[k]][1]
                 /\ \A j \in 1..(k - 1) :
                        win_rates[run_ids[j]][1] < win_rates[run_ids[k]][1]
    IN  run_ids[i]

\* _compute_win_rates, lines 91-142.  A rate is the pair <<quarters of a win,
\* four times total_possible>>, the exact value of score / total_possible.
compute_win_rates(run_ids, ts, rs) ==
    LET total_comparisons == Cardinality(rs)
        win_rates == [r \in Range(run_ids) |->
                         <<wins(ts, rs, r), 4 * total_possible(total_comparisons)>>]
    IN  HumanSummary(win_rates,
                     IF run_ids = <<>> THEN NoPick ELSE max(run_ids, win_rates),
                     total_comparisons)

\* summarize_experiment, lines 42-72, on a store.
summarize_experiment(rs, order, ts, rts, experiment_id) ==
    LET done == get_done_tasks_for_experiment(ts, experiment_id)
    IN  IF done = {} THEN HumanSummary(<<>>, NoPick, 0)
        ELSE compute_win_rates(get_succeeded_run_ids_for_experiment(rs, order, experiment_id),
                               done,
                               get_ratings_for_tasks(rts, {t.task_id : t \in done}))

\* The keys at which the updates of lines 108-126 find no entry in wins,
\* which line 91 initialises for the succeeded runs only: wins[k] += ...
\* raises KeyError for any of them.
missing_keys(rs, order, ts, rts, experiment_id) ==
    LET done == get_done_tasks_for_experiment(ts, experiment_id)
        run_ids == Range(get_succeeded_run_ids_for_experiment(rs, order, experiment_id))
        credited(task, choice) ==
            IF choice = "left" THEN {IF task.flip THEN task.right_run_id ELSE task.left_run_id}
            ELSE IF choice = "right"
                 THEN {IF task.flip THEN task.left_run_id ELSE task.right_run_id}
            ELSE IF choice = "tie" THEN {task.left_run_id, task.right_run_id}
            ELSE {}
        keys(rating) ==
            UNION {credited(CHOOSE t \in done : t.task_id = rating.task_id, choice) :
                   choice \in Range(counted_choices(rating))}
    IN  UNION {keys(rating) \ run_ids :
               rating \in get_ratings_for_tasks(rts, {t.task_id : t \in done})}

\* GET /api/experiments/{experiment_id}/summary: the summary, or the
\* exception summarize_experiment raises (args[2]).
get_experiment_summary(experiment_id) ==
    /\ result' = IF missing_keys(runs, rowid, tasks, ratings, experiment_id) = {}
                 THEN [op |-> "summarize_experiment",
                       outcome |-> summarize_experiment(runs, rowid, tasks, ratings,
                                                        experiment_id),
                       args |-> <<experiment_id, None, None, None>>]
                 ELSE [op |-> "summarize_experiment", outcome |-> None,
                       args |-> <<experiment_id, "KeyError", None, None>>]
    /\ UNCHANGED <<runs, provider_calls, metric_results, queue, cur, pc, call, err,
                   rowid, tasks, ratings, gen>>

\* A store of succeeded runs kept in the given order, their tasks (flips
\* alternating from either value) and up to MaxRatings ratings; a rated task
\* is done.
Rated(order) ==
    \E b \in BOOLEAN, n \in 0..MaxRatings :
        LET combos == combinations(order)
            generated == create_tasks({}, EvalExperiment, combos, {},
                                      [k \in DOMAIN combos |-> (k % 2 = 0) = b], 1)
        IN  \E f \in [1..n -> {t.task_id : t \in generated} \X Forms] :
                /\ \A k \in 1..(n - 1) : FormCode(f[k]) <= FormCode(f[k + 1])
                /\ runs = [r \in SummaryRunIds |->
                             [Run(r, EvalExperiment, ItemId, EvalVariant(r), "abc123")
                                 EXCEPT !.status = "succeeded"]]
                /\ rowid = order
                /\ provider_calls = {}
                /\ tasks = {IF \E k \in 1..n : f[k][1] = t.task_id
                            THEN [t EXCEPT !.status = "done"] ELSE t : t \in generated}
                /\ ratings = {HumanRating(k, f[k][1], "rater-001",
                                          ChoiceSeq[f[k][2][1]], ChoiceSeq[f[k][2][2]],
                                          TargetChoices[f[k][2][3]],
                                          IF f[k][2][3] = 1 THEN None ELSE "looks real") :
                              k \in 1..n}
                /\ Idle

\* The orders in which the store may return the runs.
RunOrders == {o \in [SummaryRunIds -> SummaryRunIds] : Range(o) = SummaryRunIds}

InitSummary == Rated([i \in SummaryRunIds |-> i])

InitPick == \E order \in RunOrders : Rated(order)

NextSummary == get_experiment_summary(EvalExperiment)

SpecSummary == InitSummary /\ [][NextSummary]_vars

SpecPick == InitPick /\ [][NextSummary]_vars

\* The experiment's succeeded runs and their tasks, while runs are set back
\* to queued and processed again and the tasks endpoint is called.
NextRegen ==
    \/ \E r \in DOMAIN runs : reenqueue(r)
    \/ \E w \in Workers : fetch_queued_runs(w)
    \/ \E w \in Workers, a \in SeedAudio : \E run \in queue[w] :
           process_run(w, run, a, None, FALSE)
    \/ \E w \in Workers : call_provider(w)
    \/ \E w \in Workers : call_provider_create(w)
    \/ \E w \in Workers, b \in BOOLEAN : call_provider_generate(w, b)
    \/ \E w \in Workers : process_run_except(w)
    \/ \E f \in Flips(Succeeded(EvalExperiment)) :
           generate_pairwise_tasks("c1", EvalExperiment, f)

SpecRegen == InitRated /\ [][NextRegen]_vars

\* .filter(experiment_id == ..., status == "open"): the rows .first() picks
\* from (the query has no ORDER BY).
get_open_task_for_experiment(ts, experiment_id) ==
    {t \in ts : t.experiment_id = experiment_id /\ t.status = "open"}

\* GET /api/experiments/{experiment_id}/tasks/next: get_next_open_task, and
\* 404 (the empty set) for None.
get_next_open_task(experiment_id) ==
    LET found == get_open_task_for_experiment(tasks, experiment_id)
    IN  /\ \E task \in (IF found = {} THEN {{}} ELSE {{t} : t \in found}) :
               result' = [op |-> "get_next_open_task", outcome |-> task,
                          args |-> <<experiment_id, None, None, None>>]
        /\ UNCHANGED <<runs, provider_calls, metric_results, queue, cur, pc, call, err,
                       rowid, tasks, ratings, gen>>

\* Raters ask for the next task of an experiment and rate tasks.
NextOpen ==
    \/ \E e \in Experiments : get_next_open_task(e)
    \/ \E t \in TaskIds, rater \in Raters, f \in RatingForms :
           submit_rating(t, rater, f[1], f[2], f[3])

SpecOpen == InitRated /\ [][NextOpen]_vars

TaskStatus == {"open", "assigned", "done", "void"}

\* repo.update_task_status(session, task_id, status) and commit, called on
\* the store directly (the way a task is voided or reopened).
set_task_status(task_id, status) ==
    /\ tasks' = update_task_status(tasks, task_id, status)
    /\ result' = [op |-> "update_task_status", outcome |-> None,
                  args |-> <<task_id, status, None, None>>]
    /\ UNCHANGED <<runs, provider_calls, metric_results, queue, cur, pc, call, err,
                   rowid, ratings, gen>>

\* The store of InitSummary before any rating.
InitCounted == InitSummary /\ ratings = {}

\* Ratings come in, task statuses are rewritten, summaries are asked for.
NextCounted ==
    \/ \E t \in TaskIds, f \in RatingForms : submit_rating(t, "rater-001", f[1], f[2], f[3])
    \/ \E t \in tasks, st \in TaskStatus : set_task_status(t.task_id, st)
    \/ get_experiment_summary(EvalExperiment)

SpecCounted == InitCounted /\ [][NextCounted]_vars

\* The experiment's succeeded runs with their task, while runs are set back
\* to queued and processed again, ratings come in and summaries are asked
\* for.
NextTotal ==
    \/ \E r \in DOMAIN runs : reenqueue(r)
    \/ \E w \in Workers : fetch_queued_runs(w)
    \/ \E w \in Workers, a \in SeedAudio : \E run \in queue[w] :
           process_run(w, run, a, None, FALSE)
    \/ \E w \in Workers : call_provider(w)
    \/ \E w \in Workers : call_provider_create(w)
    \/ \E w \in Workers, b \in BOOLEAN : call_provider_generate(w, b)
    \/ \E w \in Workers : process_run_except(w)
    \/ \E t \in TaskIds, f \in RatingForms : submit_rating(t, "rater-001", f[1], f[2], f[3])
    \/ get_experiment_summary(EvalExperiment)

SpecTotal == InitCounted /\ [][NextTotal]_vars

(***************************************************************************)
(* Status badge: metrics/status.py                                         *)
(***************************************************************************)
\* The thresholds of lines 17-24.  Ratios and scores are counted in
\* hundredths (0.2 is 20, 10.0 is 1000), av_duration_delta_ms in
\* milliseconds.
REJECT_FACE_PRESENT_FLOOR == 20
REJECT_AV_DELTA_CEILING == 500
FLAG_FLICKER_CEILING == 1000
FLAG_FREEZE_CEILING == 30
FLAG_BLUR_FLOOR == 2000
FLAG_MOUTH_AUDIO_CORR_FLOOR == 0 - 10

StatusResult(badge, reasons) == [badge |-> badge, reasons |-> reasons]

\* The reason of the first condition that fires, alone.
first_reason(checks) ==
    LET fired == SelectSeq(checks, LAMBDA c : c[1])
    IN  IF fired = <<>> THEN <<>> ELSE <<fired[1][2]>>

\* The reasons appended by the conditions that fire, in the order of the
\* conditions.
RECURSIVE reasons_of(_)
reasons_of(checks) ==
    IF checks = <<>> THEN <<>>
    ELSE (IF Head(checks)[1] THEN <<Head(checks)[2]>> ELSE <<>>) \o reasons_of(Tail(checks))

\* compute_status_badge with thresholds that fire when reached.
compute_status_badge_inclusive(decode_ok, face_present_ratio, av_duration_delta_ms, flicker_score, freeze_frame_ratio, blur_score, mouth_audio_corr) ==
    LET rejects == << <<~decode_ok, "decode_ok">>,
                      <<face_present_ratio <= REJECT_FACE_PRESENT_FLOOR, "face_present_ratio">>,
                      <<av_duration_delta_ms >= REJECT_AV_DELTA_CEILING, "av_duration_delta_ms">> >>
        flags == << <<flicker_score >= FLAG_FLICKER_CEILING, "flicker_score">>,
                    <<freeze_frame_ratio >= FLAG_FREEZE_CEILING, "freeze_frame_ratio">>,
                    <<blur_score <= FLAG_BLUR_FLOOR, "blur_score">>,
                    <<mouth_audio_corr <= FLAG_MOUTH_AUDIO_CORR_FLOOR, "mouth_audio_corr">> >>
        has_reject == \E k \in DOMAIN rejects : rejects[k][1]
        has_flag == \E k \in DOMAIN flags : flags[k][1]
    IN  StatusResult(IF has_reject THEN "reject" ELSE IF has_flag THEN "flagged" ELSE "pass",
                     reasons_of(rejects \o flags))

\* compute_status_badge, lines 63-107.
compute_status_badge(decode_ok, face_present_ratio, av_duration_delta_ms, flicker_score, freeze_frame_ratio, blur_score, mouth_audio_corr) ==
    LET rejects == << <<~decode_ok, "decode_ok">>,
                      <<face_present_ratio < REJECT_FACE_PRESENT_FLOOR, "face_present_ratio">>,
                      <<av_duration_delta_ms > REJECT_AV_DELTA_CEILING, "av_duration_delta_ms">> >>
        flags == << <<flicker_score > FLAG_FLICKER_CEILING, "flicker_score">>,
                    <<freeze_frame_ratio > FLAG_FREEZE_CEILING, "freeze_frame_ratio">>,
                    <<blur_score < FLAG_BLUR_FLOOR, "blur_score">>,
                    <<mouth_audio_corr < FLAG_MOUTH_AUDIO_CORR_FLOOR, "mouth_audio_corr">> >>
        has_reject == \E k \in DOMAIN rejects : rejects[k][1]
        has_flag == \E k \in DOMAIN flags : flags[k][1]
    IN  StatusResult(IF has_reject THEN "reject" ELSE IF has_flag THEN "flagged" ELSE "pass",
                     reasons_of(rejects \o flags))

\* Values just below, at and just above a threshold.
Around(threshold) == {threshold - 1, threshold, threshold + 1}

\* The metrics of one output, about to be passed to compute_status_badge.
InitStatus ==
    /\ runs = <<>>
    /\ rowid = <<>>
    /\ provider_calls = {}
    /\ tasks = {}
    /\ ratings = {}
    /\ metric_results = {}
    /\ queue = [w \in Workers |-> {}]
    /\ cur = [w \in Workers |-> NoRun]
    /\ pc = [w \in Workers |-> "idle"]
    /\ call = [w \in Workers |-> 0]
    /\ err = [w \in Workers |-> None]
    /\ gen = [c \in Clients |-> NoCall]
    /\ \E decode_ok \in BOOLEAN,
          face_present_ratio \in Around(REJECT_FACE_PRESENT_FLOOR),
          av_duration_delta_ms \in Around(REJECT_AV_DELTA_CEILING),
          flicker_score \in Around(FLAG_FLICKER_CEILING),
          freeze_frame_ratio \in Around(FLAG_FREEZE_CEILING),
          blur_score \in Around(FLAG_BLUR_FLOOR),
          mouth_audio_corr \in Around(FLAG_MOUTH_AUDIO_CORR_FLOOR) :
              result = [op |-> "metrics", outcome |-> None,
                        args |-> <<decode_ok, face_present_ratio, av_duration_delta_ms,
                                   flicker_score, freeze_frame_ratio, blur_score,
                                   mouth_audio_corr>>]

\* The call of compute_metrics (bundle.py 189-197) on those metrics.
status_badge ==
    /\ result.op = "metrics"
    /\ result' = [result EXCEPT
                     !.op = "compute_status_badge",
                     !.outcome = compute_status_badge(result.args[1], result.args[2],
                                     result.args[3], result.args[4], result.args[5],
                                     result.args[6], result.args[7])]
    /\ UNCHANGED <<runs, provider_calls, metric_results, queue, cur, pc, call, err,
                   rowid, tasks, ratings, gen>>

NextStatus == status_badge

SpecStatus == InitStatus /\ [][NextStatus]_vars

(***************************************************************************)
(* Identity: core/identity.py on pairs of inputs                           *)
(***************************************************************************)
\* The inputs of the three functions, each with the name of its function.
\* Ids are free strings; a spec_hash is a digest; model_version and
\* ref_image_sha256 may be None.
IdentityInputs ==
    ({"compute_spec_hash"} \X {"mock"} \X {"mock-v1"} \X {None, "null", "1"}
         \X {"Generate a talking head video.", "Generate a video."} \X {"{}"}
         \X {"42", "123"} \X {"sha256-audio"} \X {None, "null", RefImageSha})
    \cup ({"compute_run_id"} \X {"a", "ab", "a|b"} \X {"c", "bc", "b|c"}
              \X {"seed=42", "seed=123"} \X SpecHashes)
    \cup ({"compute_provider_idempotency_key"} \X {"mock", "mock|abc123"} \X SpecHashes)

\* Two inputs of one function, about to be hashed.
InitIdentity ==
    /\ runs = <<>>
    /\ rowid = <<>>
    /\ provider_calls = {}
    /\ tasks = {}
    /\ ratings = {}
    /\ metric_results = {}
    /\ queue = [w \in Workers |-> {}]
    /\ cur = [w \in Workers |-> NoRun]
    /\ pc = [w \in Workers |-> "idle"]
    /\ call = [w \in Workers |-> 0]
    /\ err = [w \in Workers |-> None]
    /\ gen = [c \in Clients |-> NoCall]
    /\ \E x, y \in IdentityInputs :
           /\ x[1] = y[1]
           /\ result = [op |-> "inputs", outcome |-> None, args |-> <<x, y>>]

\* The digest of an input.
digest(x) ==
    CASE x[1] = "compute_spec_hash" ->
             compute_spec_hash(x[2], x[3], x[4], x[5], x[6], x[7], x[8], x[9])
      [] x[1] = "compute_run_id" -> compute_run_id(x[2], x[3], x[4], x[5])
      [] OTHER -> compute_provider_idempotency_key(x[2], x[3])

\* The function is called on both inputs.
identity ==
    /\ result.op = "inputs"
    /\ result' = [result EXCEPT !.op = "identity",
                                !.outcome = <<digest(result.args[1]), digest(result.args[2])>>]
    /\ UNCHANGED <<runs, provider_calls, metric_results, queue, cur, pc, call, err,
                   rowid, tasks, ratings, gen>>

SpecIdentity == InitIdentity /\ [][identity]_vars

(***************************************************************************)
(* Run detail: api/routes/runs.py                                          *)
(***************************************************************************)
\* json.dumps of a metric bundle: the text is modelled by the members the
\* run detail reads from it, status_badge and reasons.
json_dumps(badge, reasons) == <<"status_badge", badge, "reasons", reasons>>

\* The value_json texts written for a run: two bundles, and {"value": 0.5},
\* which is JSON but no MetricBundleV1.
BundleJsons ==
    {json_dumps("pass", <<>>), json_dumps("flagged", <<"high_jitter">>), <<"value", "0.5">>}

\* MetricBundleV1(**json.loads(value_json)), lines 40-41: the bundle, or the
\* empty set when the validation raises ValueError.
MetricBundleV1(value_json) ==
    IF Len(value_json) = 4 /\ value_json[1] = "status_badge" /\ value_json[3] = "reasons"
    THEN {[status_badge |-> value_json[2], reasons |-> value_json[4]]}
    ELSE {}

\* .filter(run_id == ..., metric_name == ...): the rows .first() picks from
\* (the query has no ORDER BY).
get_metric_result(ms, run_id, metric_name) ==
    {m \in ms : m.run_id = run_id /\ m.metric_name = metric_name}

\* A nullable member of the response is the empty set for null and a
\* singleton for a value.
RunDetail(run, metrics, badge, reasons) ==
    [run_id |-> run.run_id, spec_hash |-> run.spec_hash, status |-> run.status,
     metrics |-> metrics, status_badge |-> badge, reasons |-> reasons]

\* _build_run_detail, lines 31-59, with the row get_metric_result returned
\* (the empty set for None): reasons starts as the empty list.
build_run_detail(run, metric_result) ==
    LET parsed == IF metric_result = {} THEN {}
                  ELSE MetricBundleV1((CHOOSE m \in metric_result : TRUE).value_json)
    IN  IF parsed = {}
        THEN RunDetail(run, {}, {}, {<<>>})
        ELSE LET metrics == CHOOSE b \in parsed : TRUE
             IN  RunDetail(run, {metrics}, {metrics.status_badge}, {metrics.reasons})

\* GET /api/runs/{run_id}, lines 80-85: 404 (the empty set) for no run.
get_run(run_id) ==
    /\ IF run_id \notin DOMAIN runs
       THEN result' = [op |-> "get_run", outcome |-> {}, args |-> <<run_id, None, None, None>>]
       ELSE LET found == get_metric_result(metric_results, run_id, MetricName)
            IN  \E metric_result \in (IF found = {} THEN {{}} ELSE {{m} : m \in found}) :
                    result' = [op |-> "get_run",
                               outcome |-> {build_run_detail(runs[run_id], metric_result)},
                               args |-> <<run_id, None, None, None>>]
    /\ UNCHANGED <<runs, provider_calls, metric_results, queue, cur, pc, call, err,
                   rowid, tasks, ratings, gen>>

\* Metric bundles are written for the seeded runs and run details are read.
NextDetail ==
    \/ \E r \in RunIds, v \in MetricVersions, j \in BundleJsons : add_metric_result(r, v, j)
    \/ \E r \in RunIds \cup {0} : get_run(r)

SpecDetail == Init /\ [][NextDetail]_vars

\* The edges of the status diagram.
StatusEdges ==
    {<<"queued", "running">>, <<"running", "succeeded">>, <<"running", "failed">>}

\* The provider_idempotency_key of the run a worker is processing.
KeyOf(run) == compute_provider_idempotency_key(Provider, run.spec_hash)

\* C1: every change of a run's status follows queued->running,
\* running->succeeded or running->failed; in particular no run goes from
\* queued to failed directly and a succeeded or failed run keeps its status.
C1_StatusMonotonic ==
    [][\A r \in DOMAIN runs :
          runs'[r].status # runs[r].status
              => <<runs[r].status, runs'[r].status>> \in StatusEdges]_vars

\* C2: no two workers are inside the pipeline (between process_run's start
\* and its end) for the same run_id.
C2_SingleClaim ==
    \A w1, w2 \in Workers :
        (w1 # w2 /\ pc[w1] # "idle" /\ pc[w2] # "idle")
            => cur[w1].run_id # cur[w2].run_id

\* C3: in every reachable store, at most one ProviderCall row per
\* (provider, provider_idempotency_key) has status completed.
C3_AtMostOneCompleted ==
    \A c1, c2 \in provider_calls :
        (/\ c1.status = "completed" /\ c2.status = "completed"
         /\ c1.provider = c2.provider
         /\ c1.provider_idempotency_key = c2.provider_idempotency_key)
            => c1 = c2

\* C3 witness: a key has its completed call, and a run with that key, other
\* than the call's own, has been through the provider step since.
C3_Witness ==
    \E c \in provider_calls : \E r \in DOMAIN runs :
        /\ c.status = "completed"
        /\ r # c.run_id
        /\ KeyOf(runs[r]) = c.provider_idempotency_key
        /\ runs[r].status = "failed"
        /\ runs[r].error_code \in {"AttributeError", "IntegrityError"}

\* C4: the handler's finish (update_run_status with set_run_ended) applied to
\* a run that is already succeeded or failed leaves the run's row as it was.
C4_TerminalRowUnchanged ==
    [][\A w \in Workers :
          (/\ pc[w] = "except" /\ pc'[w] = "idle"
           /\ runs[cur[w].run_id].status \in Terminal)
              => runs'[cur[w].run_id] = runs[cur[w].run_id]]_vars

C7_CompletedCallReused ==
    [][\A w \in Workers :
          (/\ pc[w] = "call_provider" /\ pc'[w] # pc[w]
           /\ \E c \in provider_calls :
                  /\ c.status = "completed"
                  /\ c.run_id # cur[w].run_id
                  /\ c.provider_idempotency_key = KeyOf(cur[w]))
              => pc'[w] = "normalize" /\ provider_calls' = provider_calls]_vars

(***************************************************************************)
(* Properties of the store (SpecRuns, SpecMetrics)                         *)
(***************************************************************************)
\* The runs that occupy the (experiment_id, item_id, variant_key) slot.
RunsInSlot(rs, experiment_id) ==
    {r \in DOMAIN rs : <<rs[r].experiment_id, rs[r].item_id, rs[r].variant_key>>
                           = <<experiment_id, ItemId, VariantKey>>}

\* C9: an insert of a Run whose (experiment_id, item_id, variant_key) is taken
\* fails, whatever its run_id and spec_hash, and leaves every table as it
\* was; and no store holds two runs in one slot.
C9_DuplicateRunRejected ==
    /\ [](\A e \in Experiments : Cardinality(RunsInSlot(runs, e)) <= 1)
    /\ [][(result'.op = "add_run" /\ RunsInSlot(runs, result'.args[2]) # {})
              => /\ result'.outcome = "IntegrityError"
                 /\ runs' = runs
                 /\ provider_calls' = provider_calls
                 /\ metric_results' = metric_results]_vars

\* C9 witness: the latest insert was refused although its run_id was new and
\* its spec_hash differed from that of the run occupying the slot.
C9_Witness ==
    /\ result.op = "add_run"
    /\ result.outcome = "IntegrityError"
    /\ result.args[1] \notin DOMAIN runs
    /\ \E r \in RunsInSlot(runs, result.args[2]) : runs[r].spec_hash # result.args[3]

\* The rows holding (run_id, MetricName, metric_version).
MetricRows(ms, run_id, metric_version) ==
    {m \in ms : <<m.run_id, m.metric_name, m.metric_version>>
                    = <<run_id, MetricName, metric_version>>}

\* C10: a write of (run_id, metric_name, metric_version) that a row already
\* holds is rejected and the table, the row's value included, stays as it
\* was; a write whose triple is new, even if only the version is new,
\* succeeds and adds its row next to the existing ones.
C10_MetricWrittenOnce ==
    [][result'.op = "add_metric_result"
          => LET run_id == result'.args[1]
                 version == result'.args[3]
                 value == result'.args[4]
             IN  IF MetricRows(metric_results, run_id, version) # {}
                 THEN /\ result'.outcome = "IntegrityError"
                      /\ metric_results' = metric_results
                 ELSE /\ result'.outcome = "ok"
                      /\ metric_results \subseteq metric_results'
                      /\ \E m \in metric_results' \ metric_results :
                             /\ metric_results' = metric_results \cup {m}
                             /\ m.value_json = value
                             /\ MetricRows(metric_results', run_id, version) = {m}]_vars

\* C10 witness: a run has rows of two versions, and the latest write, which
\* repeated one of them with another value, was rejected.
C10_Witness ==
    /\ result.op = "add_metric_result"
    /\ result.outcome = "IntegrityError"
    /\ \A v \in MetricVersions : MetricRows(metric_results, result.args[1], v) # {}
    /\ \E m \in MetricRows(metric_results, result.args[1], result.args[3]) :
           m.value_json # result.args[4]

(***************************************************************************)
(* Properties of task generation (SpecPairs)                               *)
(***************************************************************************)
\* The tasks of the experiment whose canonical pair is {a, b}.
TasksOfPair(ts, experiment_id, a, b) ==
    {t \in ts : t.experiment_id = experiment_id
                /\ {t.left_run_id, t.right_run_id} = {a, b}}

\* C11: when a generate_pairwise_tasks call completes, every pair of distinct
\* runs it read as succeeded has exactly one task, and no task pairs a run
\* with itself.
C11_PairCoverage ==
    [][\A c \in Clients :
          (gen[c].pc = "create" /\ gen'[c].pc = "idle")
              => /\ \A i, j \in 1..Len(gen[c].run_ids) :
                        i < j => Cardinality(TasksOfPair(tasks', gen[c].experiment_id,
                                     gen[c].run_ids[i], gen[c].run_ids[j])) = 1
                 /\ \A t \in tasks' : t.left_run_id # t.right_run_id]_vars

\* C12: no two tasks of one experiment have the same unordered pair of runs.
C12_CanonicalPairUnique ==
    \A t1, t2 \in tasks :
        (/\ t1.experiment_id = t2.experiment_id
         /\ {t1.left_run_id, t1.right_run_id} = {t2.left_run_id, t2.right_run_id})
            => t1 = t2

\* C14: every task presents its pair swapped when flip is set and as stored
\* otherwise, so the presented pair is the canonical pair.
C14_FlipSoundness ==
    \A t \in tasks :
        /\ t.flip => /\ t.presented_left_run_id = t.right_run_id
                     /\ t.presented_right_run_id = t.left_run_id
        /\ ~t.flip => /\ t.presented_left_run_id = t.left_run_id
                      /\ t.presented_right_run_id = t.right_run_id
        /\ {t.presented_left_run_id, t.presented_right_run_id}
               = {t.left_run_id, t.right_run_id}

\* C14 witness: the store holds a flipped task and an unflipped one.
C14_Witness ==
    \E t1, t2 \in tasks : t1.flip /\ ~t2.flip

\* C13: a generate_pairwise_tasks call that directly follows another one for
\* the same experiment creates nothing: it returns created_count = 0 and
\* leaves the tasks as the first call left them.
C13_SecondCallCreatesNothing ==
    [][(/\ result.op = "generate_pairwise_tasks"
        /\ result'.op = "generate_pairwise_tasks"
        /\ result'.args[2] = result.args[2])
          => (result'.outcome = 0 /\ tasks' = tasks)]_vars

\* C13 witness: the latest call was a generate_pairwise_tasks that created
\* nothing, on a store that holds the tasks an earlier call created for its
\* three succeeded runs.
C13_Witness ==
    /\ result.op = "generate_pairwise_tasks"
    /\ result.outcome = 0
    /\ Len(result.args[3]) = 3
    /\ Cardinality(tasks) = 3

\* C26: a generate_pairwise_tasks call returns as created_count the number
\* of pairs of succeeded runs of the experiment that had no task before it:
\* n(n-1)/2 with n succeeded runs and no task, 0 with fewer than 2 succeeded
\* runs; and task_ids are the ids of exactly the tasks the call added.
C26_CreatedCount ==
    [][result'.op = "generate_pairwise_tasks" =>
          LET e == result'.args[2]
              S == {r \in DOMAIN runs :
                       runs[r].experiment_id = e /\ runs[r].status = "succeeded"}
              n == Cardinality(S)
              missing == {p \in S \X S : p[1] < p[2] /\ TasksOfPair(tasks, e, p[1], p[2]) = {}}
          IN  /\ result'.outcome = Cardinality(missing)
              /\ tasks = {} => result'.outcome = (n * (n - 1)) \div 2
              /\ n < 2 => result'.outcome = 0
              /\ tasks \subseteq tasks'
              /\ Len(result'.args[4]) = result'.outcome
              /\ Range(result'.args[4]) = {t.task_id : t \in tasks' \ tasks}]_vars

\* C26 witness: a call made after a third run succeeded created the two
\* pairs of that run, beside the task of the first two runs.
C26_Witness ==
    /\ result.op = "generate_pairwise_tasks"
    /\ result.outcome = 2
    /\ Len(result.args[3]) = 3
    /\ Cardinality(tasks) = 3

\* C27: every task has left_run_id < right_run_id, and the task_ids of a call
\* list its tasks in ascending order of (left_run_id, right_run_id), in
\* whatever order the store returns the succeeded runs.
C27_PairsAscending ==
    /\ \A t \in tasks : t.left_run_id < t.right_run_id
    /\ result.op = "generate_pairwise_tasks" =>
           \A i, j \in DOMAIN result.args[4] :
               i < j =>
                   LET t1 == get_task(tasks, result.args[4][i])
                       t2 == get_task(tasks, result.args[4][j])
                   IN  \A a \in t1, b \in t2 :
                           \/ a.left_run_id < b.left_run_id
                           \/ /\ a.left_run_id = b.left_run_id
                              /\ a.right_run_id < b.right_run_id

Counted == get_ratings_for_tasks(ratings,
               {t.task_id : t \in get_done_tasks_for_experiment(tasks, EvalExperiment)})

TaskOf(rating) == CHOOSE t \in tasks : t.task_id = rating.task_id

\* The votes for a choice: the counted ratings, with the dimension, that made
\* it.
Votes(choice) ==
    {v \in Counted \X {"choice_realism", "choice_lipsync"} : v[1][v[2]] = choice}

\* The sum of the numerators of the win rates of a summary.
RECURSIVE SumOfRates(_, _)
SumOfRates(win_rates, keys) ==
    IF keys = {} THEN 0
    ELSE LET r == CHOOSE k \in keys : TRUE
         IN  win_rates[r][1] + SumOfRates(win_rates, keys \ {r})

\* Every counted rating chose left, right or tie in both dimensions.
NoSkip == \A r \in Counted : r.choice_realism # "skip" /\ r.choice_lipsync # "skip"

C17_PickSmallestMaximal ==
    result.op = "summarize_experiment" =>
        LET rates == result.outcome.win_rates
            pick == result.outcome.recommended_pick
        IN  IF pick = NoPick
            THEN \A r \in DOMAIN runs : runs[r].experiment_id # EvalExperiment
            ELSE /\ pick \in DOMAIN rates
                 /\ \A r \in DOMAIN rates :
                        /\ rates[r][1] <= rates[pick][1]
                        /\ rates[r][1] = rates[pick][1] => pick <= r

\* C18: the summary is the summary of the store whose ratings have their
\* choice_targetmatch and notes erased, so stores that differ only in these
\* have the same summary.
C18_TargetmatchIgnored ==
    result.op = "summarize_experiment" =>
        result.outcome
            = summarize_experiment(runs, rowid, tasks,
                  {[r EXCEPT !.choice_targetmatch = None, !.notes = None] : r \in ratings},
                  EvalExperiment)

\* C18 witness: a summary over two ratings of one task with the same choices
\* for realism and lipsync, one with a targetmatch choice and notes, one
\* without.
C18_Witness ==
    /\ result.op = "summarize_experiment"
    /\ \E r1, r2 \in Counted :
           /\ r1.task_id = r2.task_id
           /\ counted_choices(r1) = counted_choices(r2)
           /\ r1.choice_realism = "right"
           /\ r1.choice_targetmatch = "left" /\ r1.notes # None
           /\ r2.choice_targetmatch = None /\ r2.notes = None

\* C25: the win_rates of a summary have one entry for every run of the
\* experiment, and without a done task every entry is 0 and
\* total_comparisons is 0.
C25_RateForEveryRun ==
    result.op = "summarize_experiment" =>
        /\ DOMAIN result.outcome.win_rates
               = {r \in DOMAIN runs : runs[r].experiment_id = EvalExperiment}
        /\ get_done_tasks_for_experiment(tasks, EvalExperiment) = {}
               => /\ \A r \in DOMAIN result.outcome.win_rates :
                         result.outcome.win_rates[r][1] = 0
                  /\ result.outcome.total_comparisons = 0

\* C28: the total_comparisons of a summary is the number of ratings whose
\* task belongs to the experiment and is done; it is 0 when there is no
\* rating.
C28_TotalComparisons ==
    [][result'.op = "summarize_experiment" =>
          /\ result'.outcome.total_comparisons
                 = Cardinality({r \in ratings :
                       \E t \in tasks : /\ t.task_id = r.task_id
                                        /\ t.experiment_id = EvalExperiment
                                        /\ t.status = "done"})
          /\ ratings = {} => result'.outcome.total_comparisons = 0]_vars

\* C28 witness: a summary that counted nothing although two ratings are
\* stored, their task being void.
C28_Witness ==
    /\ result.op = "summarize_experiment"
    /\ result.outcome.total_comparisons = 0
    /\ Cardinality(ratings) = 2
    /\ \A r \in ratings : \E t \in tasks : t.task_id = r.task_id /\ t.status = "void"

(***************************************************************************)
(* Properties of the status badge (SpecStatus)                             *)
(***************************************************************************)
\* C20: the badge is reject iff decode_ok is false or face_present_ratio <
\* 0.2 or av_duration_delta_ms > 500; otherwise flagged iff flicker_score >
\* 10 or freeze_frame_ratio > 0.3 or blur_score < 20 or mouth_audio_corr <
\* -0.1; otherwise pass.  The comparisons are strict and reject wins over
\* flagged.  (Ratios and scores in hundredths.)
C20_BadgeByThresholds ==
    result.op = "compute_status_badge" =>
        LET decode_ok == result.args[1]
            face_present_ratio == result.args[2]
            av_duration_delta_ms == result.args[3]
            flicker_score == result.args[4]
            freeze_frame_ratio == result.args[5]
            blur_score == result.args[6]
            mouth_audio_corr == result.args[7]
            reject == \/ ~decode_ok
                      \/ face_present_ratio < 20
                      \/ av_duration_delta_ms > 500
            flagged == \/ flicker_score > 1000
                       \/ freeze_frame_ratio > 30
                       \/ blur_score < 2000
                       \/ mouth_audio_corr < 0 - 10
            badge == result.outcome.badge
        IN  /\ badge = "reject" <=> reject
            /\ badge = "flagged" <=> (~reject /\ flagged)
            /\ badge = "pass" <=> (~reject /\ ~flagged)

\* C20 witness: every metric exactly at its threshold gave pass.
C20_Witness ==
    /\ result.op = "compute_status_badge"
    /\ result.args = <<TRUE, 20, 500, 1000, 30, 2000, 0 - 10>>
    /\ result.outcome.badge = "pass"

\* C30: reasons has exactly one entry for each of the seven conditions that
\* fired, reject and flag conditions alike, so it is empty iff the badge is
\* pass.
C30_ReasonsPerCondition ==
    result.op = "compute_status_badge" =>
        LET fired == {c \in { <<~result.args[1], "decode_ok">>,
                              <<result.args[2] < 20, "face_present_ratio">>,
                              <<result.args[3] > 500, "av_duration_delta_ms">>,
                              <<result.args[4] > 1000, "flicker_score">>,
                              <<result.args[5] > 30, "freeze_frame_ratio">>,
                              <<result.args[6] < 2000, "blur_score">>,
                              <<result.args[7] < 0 - 10, "mouth_audio_corr">> } : c[1]}
            reasons == result.outcome.reasons
        IN  /\ Len(reasons) = Cardinality(fired)
            /\ Range(reasons) = {c[2] : c \in fired}
            /\ reasons = <<>> <=> result.outcome.badge = "pass"

\* C30 witness: a rejected output whose reasons name both reject conditions
\* and flag conditions.
C30_Witness ==
    /\ result.op = "compute_status_badge"
    /\ result.outcome.badge = "reject"
    /\ result.outcome.reasons = <<"decode_ok", "av_duration_delta_ms", "flicker_score", "blur_score">>

(***************************************************************************)
(* Properties of the pipeline's failure paths (Spec, SpecContext)          *)
(***************************************************************************)
\* C29: a run whose item names a reference image that is absent is stopped
\* at the context build: no worker is about to invoke generate with a
\* reference image path and no ref_image_sha256.
C29_MissingRefImageStops ==
    \A w \in Workers :
        pc[w] = "generate" =>
            ~(cur[w].ref_image_path # None /\ cur[w].ref_image_sha256 = None)

\* C21: a succeeded run that was re-enqueued and processed again ends
\* succeeded with the output_sha256 it had, and the second pass adds no
\* ProviderCall row.
C21_RerunSucceedsAgain ==
    /\ \A r \in DOMAIN runs :
           runs[r].status \in Terminal
               => /\ runs[r].status = "succeeded"
                  /\ runs[r].output_sha256 = CanonSha(runs[r].spec_hash)
    /\ \A c \in provider_calls : c.provider_call_id = c.run_id /\ c.status = "completed"

\* C22: when generate raises, the run's ProviderCall row is left failed; a
\* failed row stays in the store as it is; and no worker goes on to invoke
\* generate for a key that has a failed row.
C22_FailedCallBlocksKey ==
    [][/\ \A w \in Workers :
              /\ (pc[w] = "generate" /\ pc'[w] = "except")
                     => \E c \in provider_calls' :
                            c.provider_call_id = call[w] /\ c.status = "failed"
              /\ (pc[w] # "generate" /\ pc'[w] = "generate")
                     => ~\E c \in provider_calls :
                             /\ c.provider_idempotency_key = KeyOf(cur'[w])
                             /\ c.status = "failed"
       /\ \A c \in provider_calls : c.status = "failed" => c \in provider_calls']_vars

\* C22 witness: generate raised for a run, whose call row is failed, and
\* another run with the same key has been stopped at the insert of its call.
C22_Witness ==
    \E c \in provider_calls, r \in DOMAIN runs :
        /\ c.status = "failed"
        /\ runs[c.run_id].status = "failed" /\ runs[c.run_id].error_code = "RuntimeError"
        /\ r # c.run_id
        /\ KeyOf(runs[r]) = c.provider_idempotency_key
        /\ runs[r].status = "failed" /\ runs[r].error_code = "IntegrityError"

\* C23: a worker whose lookup finds a created ProviderCall for its key takes
\* that row and goes on to generate with it, inserting nothing.
C23_CreatedCallRetried ==
    [][\A w \in Workers :
           \A c \in provider_calls :
               (/\ pc[w] = "call_provider" /\ pc'[w] # "call_provider"
                /\ c.provider_idempotency_key = KeyOf(cur[w])
                /\ c.status = "created")
                   => /\ pc'[w] = "generate"
                      /\ call'[w] = c.provider_call_id
                      /\ provider_calls' = provider_calls]_vars

\* C24: the error_code written for a failed run is a failure class, and it
\* is InputMissing when the item's audio file was absent.
C24_ErrorCodeNamesFailureClass ==
    [][\A w \in Workers :
           (pc[w] = "except" /\ pc'[w] = "idle")
               => /\ runs'[cur[w].run_id].error_code
                         \in {"InputMissing", "Provider", "Normalize", "Metrics"}
                  /\ err[w] = "FileNotFoundError"
                         => runs'[cur[w].run_id].error_code = "InputMissing"]_vars

(***************************************************************************)
(* Properties of the run detail (SpecDetail)                               *)
(***************************************************************************)
\* C31: a run detail has the status_badge and the reasons of the run's
\* stored MetricBundleV1 result when the run has one, and null metrics,
\* null status_badge and null reasons when the run has no metric result.
C31_DetailFromBundle ==
    (result.op = "get_run" /\ result.outcome # {}) =>
        LET detail == CHOOSE d \in result.outcome : TRUE
            stored == get_metric_result(metric_results, detail.run_id, MetricName)
            bundles == {m.value_json : m \in {x \in stored : x.value_json[1] = "status_badge"}}
        IN  /\ stored = {}
                => detail.metrics = {} /\ detail.status_badge = {} /\ detail.reasons = {}
            /\ bundles # {}
                => \E b \in bundles :
                       detail.status_badge = {b[2]} /\ detail.reasons = {b[4]}

(***************************************************************************)
(* Properties of the identity functions (SpecIdentity)                     *)
(***************************************************************************)
\* C32: compute_spec_hash, compute_run_id and compute_provider_idempotency_key
\* give the same digest for identical inputs, and different pre-images, so
\* different digests, for two inputs that differ in any field: a null field
\* against a value, or a field boundary moved across the pipe.
C32_IdentityInjective ==
    result.op = "identity" =>
        (result.outcome[1] = result.outcome[2] <=> result.args[1] = result.args[2])

(***************************************************************************)
(* Properties of the run's life cycle (Spec)                               *)
(***************************************************************************)
\* C33: every run that is running, succeeded or failed has started_at set,
\* and every run that is succeeded or failed has ended_at set, whichever
\* step of process_run failed.
C33_TimestampsSet ==
    \A r \in DOMAIN runs :
        /\ runs[r].status \in {"running", "succeeded", "failed"} => runs[r].started_at # 0
        /\ runs[r].status \in Terminal => runs[r].ended_at # 0

C35_NextOpenTask ==
    result.op = "get_next_open_task" =>
        LET open == {t \in tasks : t.experiment_id = result.args[1] /\ t.status = "open"}
        IN  /\ result.outcome \subseteq open
            /\ result.outcome = {} <=> open = {}
            /\ \A t \in result.outcome :
                   t.status # "done" /\ ~\E r \in ratings : r.task_id = t.task_id

\* C35 witness: a task was returned while another task of the experiment
\* is rated and done.
C35_Witness ==
    /\ result.op = "get_next_open_task"
    /\ result.outcome # {}
    /\ \E t \in tasks : \E r \in ratings :
           /\ t.experiment_id = result.args[1]
           /\ t.status = "done"
           /\ r.task_id = t.task_id

C37_OneGenerateInFlight ==
    \A w1, w2 \in Workers :
        (w1 # w2 /\ pc[w1] = "generate" /\ pc[w2] = "generate")
            => KeyOf(cur[w1]) # KeyOf(cur[w2])

\* C37 witness: a worker is inside generate, and another worker, processing
\* another run with the same key, has been stopped at its insert.
C37_Witness ==
    \E w1, w2 \in Workers :
        /\ pc[w1] = "generate"
        /\ pc[w2] = "except" /\ err[w2] = "IntegrityError"
        /\ cur[w1].run_id # cur[w2].run_id
        /\ KeyOf(cur[w1]) = KeyOf(cur[w2])
        /\ \E c \in provider_calls : c.provider_call_id = call[w1] /\ c.status = "created"

(***************************************************************************)
(* Properties of the provider input (SpecDrift)                            *)
(***************************************************************************)
\* C38: while a worker is in the provider step, the spec_hash its
\* idempotency key is derived from, the one stored on the run, is the
\* spec_hash of the provider input it assembled; so two workers with the
\* same key hold equal provider inputs, also when the audio file changed
\* after the runs were enqueued.
C38_KeyFromAssembledInput ==
    LET InProviderStep(w) == pc[w] \in {"call_provider", "create_provider_call", "generate"}
    IN  /\ \A w \in Workers :
               InProviderStep(w)
                   => cur[w].spec_hash
                          = spec_hash_of(cur[w].input_audio_sha256, cur[w].ref_image_sha256)
        /\ \A w1, w2 \in Workers :
               (InProviderStep(w1) /\ InProviderStep(w2) /\ KeyOf(cur[w1]) = KeyOf(cur[w2]))
                   => cur[w1].input_audio_sha256 = cur[w2].input_audio_sha256

(***************************************************************************)
(* Properties of the tasks' runs (SpecRegen)                               *)
(***************************************************************************)
\* C39: in every state, the left and the right run of every task are two
\* distinct runs of the task's experiment, both succeeded.
C39_TaskRunsSucceeded ==
    \A t \in tasks :
        /\ t.left_run_id # t.right_run_id
        /\ \A r \in {t.left_run_id, t.right_run_id} :
               /\ r \in DOMAIN runs
               /\ runs[r].experiment_id = t.experiment_id
               /\ runs[r].status = "succeeded"

====
